---------------------------- MODULE Spec2Model ----------------------------
(***************************************************************************)
(* The voice-note Session of App (src/unnamed/part_000) and the two remote *)
(* calls of src/services/siliconFlowService.ts.                            *)
(*                                                                         *)
(* One step of the model is one task of the browser's event loop: a click  *)
(* handler run to its first await, the continuation of a resolved promise  *)
(* (getUserMedia, fetch), a MediaRecorder stop task, an interval tick.     *)
(* React re-renders between tasks, so a click handler reads the current    *)
(* state, while a continuation reads the values its closure captured and   *)
(* writes the current state through the setters.                           *)
(***************************************************************************)
EXTENDS Naturals, Sequences, FiniteSets, Bags

\* Capture sessions that exist at once: a session is born when a Start passes the
\* credential check and is gone when its getUserMedia promise was rejected or the stop
\* task of its recorder has run.
MaxSessions == 2
\* Network calls to one endpoint in flight at once.
MaxInFlight == 1
\* Largest value the elapsed-seconds counter is followed to.
MaxDuration == 1
\* Longest text a caller hands to the gateway on its own.
MaxLen == 2

(***************************************************************************)
(* Values                                                                  *)
(***************************************************************************)
IDLE == "IDLE"
RECORDING == "RECORDING"
PROCESSING == "PROCESSING"
REWRITING == "REWRITING"
COMPLETED == "COMPLETED"
ERROR == "ERROR"
AppStatus == {IDLE, RECORDING, PROCESSING, REWRITING, COMPLETED, ERROR}

RewriteStyle == {"Professional", "Casual", "Concise", "Email", "Polished"}
TargetLanguage == {"Original", "Chinese", "English"}

\* null of errorMessage, activeStyle and the two refs.
Null == "null"
\* JavaScript's undefined as a transcription value: no string equals it.
Undefined == <<"undefined">>
\* The credential: empty, or the one token the user may configure.
Token == "sk-token"
ApiKeys == {"", Token}

\* Texts are sequences of characters.
Space == " "
\* A faulty truth test: every text passes.
IsTruthyAlways(text) == TRUE

IsTruthy(text) == text # Undefined /\ text # <<>>

RECURSIVE TrimStart(_)
TrimStart(s) ==
    IF s # <<>> /\ Head(s) = Space THEN TrimStart(Tail(s)) ELSE s

RECURSIVE TrimEnd(_)
TrimEnd(s) ==
    IF s # <<>> /\ s[Len(s)] = Space THEN TrimEnd(SubSeq(s, 1, Len(s) - 1)) ELSE s

\* String.prototype.trim
Trim(s) == TrimEnd(TrimStart(s))

(***************************************************************************)
(* Inputs the model draws from                                             *)
(***************************************************************************)
\* Styles and languages the user clicks.
ClickedStyles == {"Polished"}
ClickedLanguages == {"Original", "Chinese"}
\* Sizes of the data a recorder hands over when it stops.
DataSizes == {1}
\* What the user may leave in the text box: nothing, blanks, a word.
EditTexts == {<<>>, <<Space>>, <<"a">>}

\* A response of a remote endpoint, or the failure of the request itself.
\*   net:  the fetch promise resolved (TRUE) or rejected (FALSE)
\*   ok:   response.ok
\*   json: the body parses as JSON
\*   message: the body's message field, "" when absent
\*   text, content: the body's text and choices[0].message.content, Undefined when absent
Response(net, ok, json, message, text, content) ==
    [net |-> net, ok |-> ok, json |-> json, message |-> message,
     text |-> text, content |-> content]

NetworkFailure == Response(FALSE, FALSE, FALSE, "", Undefined, Undefined)

\* What the transcription endpoint may answer: a text, JSON without a text field, a
\* body that is no JSON, an error status with no message, no answer at all.
TranscribeResponses ==
    { Response(TRUE, TRUE, TRUE, "", <<"a">>, Undefined),
      Response(TRUE, TRUE, TRUE, "", Undefined, Undefined),
      Response(TRUE, TRUE, FALSE, "", Undefined, Undefined),
      Response(TRUE, FALSE, FALSE, "", Undefined, Undefined),
      NetworkFailure }

\* What the chat endpoint may answer: a content with blanks around it, a content of
\* blanks, an empty content, no content, an error status with a message.
RewriteResponses ==
    { Response(TRUE, TRUE, TRUE, "", Undefined, <<Space, "a", Space>>),
      Response(TRUE, TRUE, TRUE, "", Undefined, <<Space>>),
      Response(TRUE, TRUE, TRUE, "", Undefined, <<>>),
      Response(TRUE, TRUE, TRUE, "", Undefined, Undefined),
      Response(TRUE, FALSE, TRUE, "remote message", Undefined, Undefined) }

\* The message of an Error the browser throws (fetch's TypeError, json()'s SyntaxError):
\* the program never looks into it.
BrowserMessage == "message of the browser's error"

(***************************************************************************)
(* State                                                                   *)
(***************************************************************************)
VARIABLES
    status,            \* useState<AppStatus>
    transcription,     \* useState<string>
    duration,          \* useState<number>
    errorMessage,      \* useState<string | null>
    isSettingsOpen,    \* useState<boolean>
    apiKey,            \* useState<string>
    activeStyle,       \* useState<RewriteStyle | null>
    activeLanguage,    \* useState<TargetLanguage>
    mediaRecorderRef,  \* useRef: Null, or the MediaRecorder made last, told by its
                       \* state attribute: "recording" or "inactive"
    audioChunksRef,    \* useRef: the chunk buffer, a sequence of data sizes
    timerIntervalRef,  \* useRef: Null, or "interval", the id of a running interval
    acquiring,         \* number of getUserMedia promises pending
    recording,         \* number of MediaRecorders recording, each on a live stream
    stopping,          \* number of stop tasks queued by MediaRecorder.stop()
    timers,            \* number of intervals running
    calls,             \* bag of the network calls in flight: the arguments of each
                       \* and what its continuation will read
    lastOp             \* observation: the step taken last, the path it took and the
                       \* gateway invocations it made

session == <<status, transcription, duration, errorMessage, activeStyle, activeLanguage>>
settings == <<isSettingsOpen, apiKey>>
capture == <<mediaRecorderRef, audioChunksRef, timerIntervalRef,
             acquiring, recording, stopping, timers>>
vars == <<session, settings, capture, calls, lastOp>>

\* An invocation of a gateway function with its arguments: payload for transcribeAudio,
\* text, style and language for rewriteText.
Request(kind, token, payload, text, style, language) ==
    [kind |-> kind, token |-> token, payload |-> payload, text |-> text,
     style |-> style, language |-> language]

\* A step as lastOp records it. The flag tells the path taken: for
\* handleStartRecording that the credential check passed, for handleStopRecording that
\* the Stop was accepted, for a toggle that the clicked item was the active one, for
\* the continuation of a call that it follows a Discard or Save at once.
Op(name, flag, requests) == [name |-> name, flag |-> flag, requests |-> requests]

\* The record of a step no property below asks about.
Unobserved == Op("unobserved", TRUE, {})

Init ==
    /\ status = IDLE
    /\ transcription = <<>>
    /\ duration = 0
    /\ errorMessage = Null
    /\ isSettingsOpen = FALSE
    /\ apiKey \in ApiKeys
    /\ activeStyle = Null
    /\ activeLanguage = "Original"
    /\ mediaRecorderRef = Null
    /\ audioChunksRef = <<>>
    /\ timerIntervalRef = Null
    /\ acquiring = 0
    /\ recording = 0
    /\ stopping = 0
    /\ timers = 0
    /\ calls = EmptyBag
    /\ lastOp = Op("Init", TRUE, {})

(***************************************************************************)
(* Remote Service Gateway                                                  *)
(***************************************************************************)
\* How an async function ends: it throws an Error with a message, or returns.
Throw(message) == [threw |-> TRUE, message |-> message, value |-> Undefined]
Return(value) == [threw |-> FALSE, message |-> "", value |-> value]

\* transcribeAudio throws before its fetch: the Error's message, "" when it goes on
TranscribePrecondition(token) ==
    IF token = "" THEN "API Token is missing. Please configure it in settings." ELSE ""

\* transcribeAudio reaches its fetch
TranscribeFetches(token) == TranscribePrecondition(token) = ""

\* transcribeAudio from its fetch on, given the response the fetch meets
TranscribeFetched(resp) ==
    IF ~resp.net THEN Throw(BrowserMessage)
    ELSE IF ~resp.ok
         THEN Throw(IF resp.json /\ resp.message # "" THEN resp.message
                    ELSE "ASR API Error: 500")
    ELSE IF ~resp.json THEN Throw(BrowserMessage)
    ELSE Return(resp.text)

transcribeAudio(token, resp) ==
    IF ~TranscribeFetches(token) THEN Throw(TranscribePrecondition(token))
    ELSE TranscribeFetched(resp)

\* A faulty rewriteText: it tests the text as it is, untrimmed.
RewritePreconditionUntrimmed(text, token) ==
    IF token = "" THEN "API Token is missing."
    ELSE IF ~IsTruthy(text) THEN "No text to rewrite."
    ELSE ""

\* rewriteText throws before its fetch: the Error's message, "" when it goes on
RewritePrecondition(text, token) ==
    IF token = "" THEN "API Token is missing."
    ELSE IF ~IsTruthy(text) \/ Trim(text) = <<>> THEN "No text to rewrite."
    ELSE ""

\* rewriteText reaches its fetch
RewriteFetches(text, token) == RewritePrecondition(text, token) = ""

\* A faulty rewriteText: the content as received.
RewrittenContentUntrimmed(content) == content

\* what rewriteText returns from a well-formed response
RewrittenContent(content) == Trim(content)

\* rewriteText from its fetch on, given the response the fetch meets
RewriteFetched(resp) ==
    IF ~resp.net THEN Throw(BrowserMessage)
    ELSE IF ~resp.ok
         THEN Throw(IF resp.json /\ resp.message # "" THEN resp.message
                    ELSE "LLM API Error: 500")
    ELSE IF ~resp.json THEN Throw(BrowserMessage)
    ELSE IF ~IsTruthy(resp.content) THEN Throw("Received empty response from the model.")
    ELSE Return(RewrittenContent(resp.content))

rewriteText(text, style, language, token, resp) ==
    IF ~RewriteFetches(text, token) THEN Throw(RewritePrecondition(text, token))
    ELSE RewriteFetched(resp)

\* err.message || fallback
MessageOr(message, fallback) == IF message # "" THEN message ELSE fallback

(***************************************************************************)
(* Calls in flight                                                         *)
(***************************************************************************)
\* A call in flight: the text, style and language rewriteText was called with, and
\* previousStatus, the const its continuation in handleProcessText reads. A transcribe
\* call has none of them; TranscribeCall fills the fields with the initial values.
Call(kind, previousStatus, text, style, language) ==
    [kind |-> kind, previousStatus |-> previousStatus, text |-> text,
     style |-> style, language |-> language]

TranscribeCall == Call("transcribe", IDLE, <<>>, Null, "Original")

InFlight(kind) == {c \in BagToSet(calls) : c.kind = kind}
\* How many calls of a kind are in flight.
CountInFlight(kind) == BagCardinality([c \in InFlight(kind) |-> CopiesIn(c, calls)])
Issue(c) == calls (+) SetToBag({c})
Settle(c) == calls (-) SetToBag({c})

\* The last step was a Discard or a Save.
JustReset == lastOp.name \in {"handleDiscard", "handleSaveNote"}

(***************************************************************************)
(* Control surface: which controls the rendered page lets the user use     *)
(***************************************************************************)
\* A faulty isInteracting: it forgets the rewrite.
isInteractingButRewriting == status \in {RECORDING, PROCESSING}

isInteracting == status \in {RECORDING, PROCESSING, REWRITING}
StopShown == status = RECORDING
StartEnabled == ~StopShown /\ ~isInteracting
TextareaEnabled == ~isInteracting
ToolsShown == IsTruthy(transcription) /\ status # RECORDING /\ status # PROCESSING
ToggleEnabled == ToolsShown /\ status # REWRITING
DiscardEnabled == ~isInteracting
SaveEnabled == ~(isInteracting \/ (~IsTruthy(transcription) /\ duration = 0))

(***************************************************************************)
(* Capture: handleStartRecording, its continuation, the ticker, Stop       *)
(***************************************************************************)
\* Capture sessions that exist. Recorders and intervals are told apart only by what
\* the two refs hold: one the refs lost can never be stopped or cleared again.
Sessions == acquiring + recording + stopping

\* clearInterval(timerIntervalRef.current) under its null check.
TimersAfterClear == IF timerIntervalRef # Null THEN timers - 1 ELSE timers

\* A faulty handleStartRecording: it goes on without looking at the credential.
handleStartRecordingUnchecked ==
    /\ lastOp' = Op("handleStartRecording", apiKey # "", {})
    /\ UNCHANGED <<calls, apiKey>>
    /\ Sessions < MaxSessions
    /\ errorMessage' = Null
    /\ transcription' = <<>>
    /\ activeStyle' = Null
    /\ activeLanguage' = "Original"
    /\ acquiring' = acquiring + 1
    /\ UNCHANGED <<status, duration, isSettingsOpen, mediaRecorderRef,
                   audioChunksRef, timerIntervalRef, recording, stopping, timers>>

\* Lines 47-58: to the await of getUserMedia. Every credential a capture session can
\* hold is Token, the one non-empty credential.
handleStartRecording ==
    /\ lastOp' = Op("handleStartRecording", apiKey # "", {})
    /\ UNCHANGED <<calls, apiKey>>
    /\ IF apiKey = ""
       THEN /\ isSettingsOpen' = TRUE
            /\ UNCHANGED <<session, capture>>
       ELSE /\ Sessions < MaxSessions
            /\ errorMessage' = Null
            /\ transcription' = <<>>
            /\ activeStyle' = Null
            /\ activeLanguage' = "Original"
            /\ acquiring' = acquiring + 1
            /\ UNCHANGED <<status, duration, isSettingsOpen, mediaRecorderRef,
                           audioChunksRef, timerIntervalRef, recording, stopping, timers>>

\* getUserMedia resolved: lines 59-84 of handleStartRecording. The recorder and the
\* interval the refs held before stay as they are, out of the refs' reach.
getUserMediaResolved ==
    /\ acquiring > 0
    /\ acquiring' = acquiring - 1
    /\ mediaRecorderRef' = "recording"
    /\ audioChunksRef' = <<>>
    /\ recording' = recording + 1
    /\ status' = RECORDING
    /\ duration' = 0
    /\ timers' = timers + 1
    /\ timerIntervalRef' = "interval"
    /\ lastOp' = Op("getUserMediaResolved", TRUE, {})
    /\ UNCHANGED <<transcription, errorMessage, activeStyle, activeLanguage, settings,
                   stopping, calls>>

\* A faulty catch of handleStartRecording: it starts the ticker all the same.
getUserMediaRejectedTicking ==
    /\ acquiring > 0
    /\ acquiring' = acquiring - 1
    /\ errorMessage' = "Microphone access denied or not available."
    /\ status' = ERROR
    /\ timers' = timers + 1
    /\ timerIntervalRef' = "interval"
    /\ lastOp' = Op("getUserMediaRejected", TRUE, {})
    /\ UNCHANGED <<transcription, duration, activeStyle, activeLanguage, settings,
                   mediaRecorderRef, audioChunksRef, recording, stopping, calls>>

\* getUserMedia rejected: the catch of handleStartRecording
getUserMediaRejected ==
    /\ acquiring > 0
    /\ acquiring' = acquiring - 1
    /\ errorMessage' = "Microphone access denied or not available."
    /\ status' = ERROR
    /\ lastOp' = Op("getUserMediaRejected", TRUE, {})
    /\ UNCHANGED <<transcription, duration, activeStyle, activeLanguage, settings,
                   mediaRecorderRef, audioChunksRef, timerIntervalRef,
                   recording, stopping, timers, calls>>

\* One firing of a running interval: setDuration(prev => prev + 1)
Tick ==
    /\ timers > 0
    /\ duration < MaxDuration
    /\ duration' = duration + 1
    /\ lastOp' = Unobserved
    /\ UNCHANGED <<status, transcription, errorMessage, activeStyle, activeLanguage,
                   settings, capture, calls>>

\* A faulty handleStopRecording: it stops the recorder whatever the status.
handleStopRecordingUnchecked ==
    /\ lastOp' = Op("handleStopRecording", status = RECORDING, {})
    /\ UNCHANGED <<transcription, duration, errorMessage, activeStyle, activeLanguage,
                   settings, audioChunksRef, acquiring, calls>>
    /\ IF mediaRecorderRef = "recording"
       THEN /\ mediaRecorderRef' = "inactive"
            /\ recording' = recording - 1
            /\ stopping' = stopping + 1
            /\ timers' = TimersAfterClear
            /\ timerIntervalRef' = Null
            /\ status' = PROCESSING
       ELSE UNCHANGED <<mediaRecorderRef, recording, stopping, timers,
                        timerIntervalRef, status>>

\* MediaRecorder.stop() makes the recorder inactive and queues its stop task. status is
\* RECORDING only from line 78 on, so the recorder the ref holds is recording then.
handleStopRecording ==
    /\ lastOp' = Op("handleStopRecording", status = RECORDING, {})
    /\ UNCHANGED <<transcription, duration, errorMessage, activeStyle, activeLanguage,
                   settings, audioChunksRef, acquiring, calls>>
    /\ IF mediaRecorderRef # Null /\ status = RECORDING
       THEN /\ mediaRecorderRef = "recording"
            /\ mediaRecorderRef' = "inactive"
            /\ recording' = recording - 1
            /\ stopping' = stopping + 1
            /\ timers' = TimersAfterClear
            /\ timerIntervalRef' = Null
            /\ status' = PROCESSING
       ELSE UNCHANGED <<mediaRecorderRef, recording, stopping, timers,
                        timerIntervalRef, status>>

(***************************************************************************)
(* Transcription: the recorder's stop task and handleTranscription         *)
(***************************************************************************)
\* A faulty handleTranscription: its catch records the message and leaves the status.
TranscriptionSettledStatusKept(outcome) ==
    IF ~outcome.threw
    THEN /\ transcription' = outcome.value
         /\ status' = COMPLETED
         /\ UNCHANGED errorMessage
    ELSE /\ errorMessage' = MessageOr(outcome.message, "Failed to transcribe audio.")
         /\ UNCHANGED <<status, transcription>>

\* A faulty handleTranscription: its catch empties the transcript.
TranscriptionSettledTranscriptLost(outcome) ==
    IF ~outcome.threw
    THEN /\ transcription' = outcome.value
         /\ status' = COMPLETED
         /\ UNCHANGED errorMessage
    ELSE /\ errorMessage' = MessageOr(outcome.message, "Failed to transcribe audio.")
         /\ status' = ERROR
         /\ transcription' = <<>>

\* handleTranscription after its await
TranscriptionSettled(outcome) ==
    IF ~outcome.threw
    THEN /\ transcription' = outcome.value
         /\ status' = COMPLETED
         /\ UNCHANGED errorMessage
    ELSE /\ errorMessage' = MessageOr(outcome.message, "Failed to transcribe audio.")
         /\ status' = ERROR
         /\ UNCHANGED transcription

\* The task MediaRecorder.stop() queues: ondataavailable with the recorder's data, then
\* onstop, which calls handleTranscription with the buffer's content; the apiKey is
\* that of the render whose handleStartRecording made the recorder, which is Token.
onstop(size) ==
    LET chunks == IF size > 0 THEN Append(audioChunksRef, size) ELSE audioChunksRef
    IN  /\ stopping > 0
        /\ stopping' = stopping - 1
        /\ audioChunksRef' = chunks
        /\ lastOp' = Op("onstop", TRUE,
                        {Request("transcribe", Token, chunks, <<>>, Null, "Original")})
        /\ IF TranscribeFetches(Token)
           THEN /\ CountInFlight("transcribe") < MaxInFlight
                /\ calls' = Issue(TranscribeCall)
                /\ UNCHANGED <<status, transcription, errorMessage>>
           ELSE /\ TranscriptionSettled(transcribeAudio(Token, NetworkFailure))
                /\ UNCHANGED calls
        /\ UNCHANGED <<duration, activeStyle, activeLanguage, settings, mediaRecorderRef,
                       timerIntervalRef, acquiring, recording, timers>>

\* The fetch of a transcribe call in flight meets resp. The step's flag tells that it
\* follows a Discard or Save at once.
TranscribeResolve(c, resp) ==
    /\ c \in InFlight("transcribe")
    /\ calls' = Settle(c)
    /\ TranscriptionSettled(TranscribeFetched(resp))
    /\ lastOp' = Op("TranscribeResolve", JustReset, {})
    /\ UNCHANGED <<duration, activeStyle, activeLanguage, settings, capture>>

(***************************************************************************)
(* Rewrite: handleProcessText and the two toggles                          *)
(***************************************************************************)
\* The status the catch of handleProcessText sets.
StatusAfterFailure(previousStatus) ==
    IF previousStatus = COMPLETED THEN COMPLETED ELSE ERROR

\* handleProcessText after its await
ProcessTextSettled(outcome, previousStatus) ==
    IF ~outcome.threw
    THEN /\ transcription' = outcome.value
         /\ status' = COMPLETED
         /\ UNCHANGED errorMessage
    ELSE /\ errorMessage' = MessageOr(outcome.message, "Failed to process text.")
         /\ status' = StatusAfterFailure(previousStatus)
         /\ UNCHANGED transcription

\* handleProcessText up to its await. When rewriteText throws before its fetch, the
\* catch runs as a microtask of the same task, so it is part of this step.
handleProcessText(name, flag, newStyle, newLanguage) ==
    /\ UNCHANGED <<duration, apiKey, capture>>
    /\ IF ~IsTruthy(transcription)
       THEN /\ lastOp' = Op(name, flag, {})
            /\ UNCHANGED <<status, transcription, errorMessage, activeStyle,
                           activeLanguage, isSettingsOpen, calls>>
       ELSE IF apiKey = ""
       THEN /\ isSettingsOpen' = TRUE
            /\ lastOp' = Op(name, flag, {})
            /\ UNCHANGED <<status, transcription, errorMessage, activeStyle,
                           activeLanguage, calls>>
       ELSE /\ activeStyle' = newStyle
            /\ activeLanguage' = newLanguage
            /\ lastOp' = Op(name, flag, {Request("rewrite", apiKey, <<>>, transcription,
                                                 newStyle, newLanguage)})
            /\ UNCHANGED isSettingsOpen
            /\ IF RewriteFetches(transcription, apiKey)
               THEN /\ CountInFlight("rewrite") < MaxInFlight
                    /\ status' = REWRITING
                    /\ errorMessage' = Null
                    /\ calls' = Issue(Call("rewrite", status, transcription,
                                             newStyle, newLanguage))
                    /\ UNCHANGED transcription
               ELSE /\ ProcessTextSettled(
                           rewriteText(transcription, newStyle, newLanguage, apiKey,
                                       NetworkFailure), status)
                    /\ UNCHANGED calls

\* A faulty onStyleClick: it never deselects.
NextStyleKept(style) == style

\* The style onStyleClick passes on.
NextStyle(style) == IF activeStyle = style THEN Null ELSE style

onStyleClick(style) ==
    handleProcessText("onStyleClick", activeStyle = style, NextStyle(style), activeLanguage)

\* A faulty onLanguageClick: it never returns early.
IsActiveLanguageNever(language) == FALSE

\* onLanguageClick returns at once on the active language.
IsActiveLanguage(language) == activeLanguage = language

onLanguageClick(language) ==
    IF IsActiveLanguage(language)
    THEN /\ lastOp' = Op("onLanguageClick", activeLanguage = language, {})
         /\ UNCHANGED <<session, settings, capture, calls>>
    ELSE handleProcessText("onLanguageClick", activeLanguage = language,
                           activeStyle, language)

\* The fetch of a rewrite call in flight meets resp. The step's flag tells that it
\* follows a Discard or Save at once.
RewriteResolve(c, resp) ==
    /\ c \in InFlight("rewrite")
    /\ calls' = Settle(c)
    /\ ProcessTextSettled(RewriteFetched(resp), c.previousStatus)
    /\ lastOp' = Op("RewriteResolve", JustReset, {})
    /\ UNCHANGED <<duration, activeStyle, activeLanguage, settings, capture>>

(***************************************************************************)
(* Manual edit, Discard, Save, settings                                    *)
(***************************************************************************)
\* textarea onChange
onChange(text) ==
    /\ text # transcription
    /\ transcription' = text
    /\ lastOp' = Unobserved
    /\ UNCHANGED <<status, duration, errorMessage, activeStyle, activeLanguage, settings,
                   capture, calls>>

\* The body of handleDiscard.
DiscardEffect ==
    /\ transcription' = <<>>
    /\ duration' = 0
    /\ errorMessage' = Null
    /\ status' = IDLE
    /\ activeStyle' = Null
    /\ activeLanguage' = "Original"
    /\ timers' = TimersAfterClear
    /\ timerIntervalRef' = Null
    /\ UNCHANGED <<settings, mediaRecorderRef, audioChunksRef,
                   acquiring, recording, stopping, calls>>

handleDiscard ==
    /\ lastOp' = Op("handleDiscard", TRUE, {})
    /\ DiscardEffect

\* alert("Note saved!"), then handleDiscard
handleSaveNote ==
    /\ lastOp' = Op("handleSaveNote", TRUE, {})
    /\ DiscardEffect

\* the header's settings button
openSettings ==
    /\ ~isSettingsOpen
    /\ isSettingsOpen' = TRUE
    /\ lastOp' = Unobserved
    /\ UNCHANGED <<session, apiKey, capture, calls>>

\* SettingsModal onClose
closeSettings ==
    /\ isSettingsOpen
    /\ isSettingsOpen' = FALSE
    /\ lastOp' = Unobserved
    /\ UNCHANGED <<session, apiKey, capture, calls>>

\* SettingsModal handleSave: onSave(key), which is updateApiKey, then onClose()
updateApiKey(key) ==
    /\ isSettingsOpen
    /\ apiKey' = key
    /\ isSettingsOpen' = FALSE
    /\ lastOp' = Unobserved
    /\ UNCHANGED <<session, capture, calls>>

(***************************************************************************)
(* The page: every handler behind the control that triggers it             *)
(***************************************************************************)
\* The open SettingsModal is a fixed full-screen layer over the page.
PageUncovered == ~isSettingsOpen

ClickStart == PageUncovered /\ StartEnabled /\ handleStartRecording
ClickStop == PageUncovered /\ StopShown /\ handleStopRecording
ClickStyle == PageUncovered /\ ToggleEnabled /\ \E style \in ClickedStyles : onStyleClick(style)
ClickLanguage == PageUncovered /\ ToggleEnabled /\ \E language \in ClickedLanguages : onLanguageClick(language)
TypeText == PageUncovered /\ TextareaEnabled /\ \E text \in EditTexts : onChange(text)
ClickDiscard == PageUncovered /\ DiscardEnabled /\ handleDiscard
ClickSave == PageUncovered /\ SaveEnabled /\ handleSaveNote
Settings == openSettings \/ closeSettings \/ \E key \in ApiKeys : updateApiKey(key)
Granted == getUserMediaResolved
Denied == getUserMediaRejected
Ticks == Tick
StopTask == \E size \in DataSizes : onstop(size)
TranscribeDone == \E c \in InFlight("transcribe") : \E resp \in TranscribeResponses : TranscribeResolve(c, resp)
RewriteDone == \E c \in InFlight("rewrite") : \E resp \in RewriteResponses : RewriteResolve(c, resp)

Next ==
    \/ ClickStart
    \/ ClickStop
    \/ ClickStyle
    \/ ClickLanguage
    \/ TypeText
    \/ ClickDiscard
    \/ ClickSave
    \/ Settings
    \/ Granted
    \/ Denied
    \/ Ticks
    \/ StopTask
    \/ TranscribeDone
    \/ RewriteDone

Spec == Init /\ [][Next]_vars

(***************************************************************************)
(* Progress. The page with the credential configured and the settings left *)
(* alone: no step of capture or transcription reads isSettingsOpen, and    *)
(* apiKey is read by the click handlers only. The event loop runs a queued *)
(* stop task, and the transcribe call is assumed to resolve or reject.     *)
(***************************************************************************)
FairInit == Init /\ apiKey = Token

FairNext ==
    \/ ClickStart
    \/ ClickStop
    \/ ClickStyle
    \/ ClickLanguage
    \/ TypeText
    \/ ClickDiscard
    \/ ClickSave
    \/ Granted
    \/ Denied
    \/ Ticks
    \/ StopTask
    \/ TranscribeDone
    \/ RewriteDone

FairSpec == FairInit /\ [][FairNext]_vars /\ WF_vars(StopTask) /\ WF_vars(TranscribeDone)

(***************************************************************************)
(* The handlers on their own. The page with the credential configured and  *)
(* the settings left alone, where Start, Stop and the toggles are invoked  *)
(* whatever the rendered controls allow, as a caller of the handlers may.  *)
(***************************************************************************)
DirectStart == handleStartRecording
DirectStop == handleStopRecording
DirectStyle == \E style \in ClickedStyles : onStyleClick(style)
DirectLanguage == \E language \in ClickedLanguages : onLanguageClick(language)

DirectNext ==
    \/ DirectStart
    \/ DirectStop
    \/ DirectStyle
    \/ DirectLanguage
    \/ TypeText
    \/ ClickDiscard
    \/ ClickSave
    \/ Granted
    \/ Denied
    \/ Ticks
    \/ StopTask
    \/ TranscribeDone
    \/ RewriteDone

SpecDirect == FairInit /\ [][DirectNext]_vars

(***************************************************************************)
(* The gateway on its own: a caller invokes transcribeAudio and rewriteText *)
(* with arguments of its choice. The Session stays as constructed; calls   *)
(* holds the fetches in flight and lastOp the invocation and how it ended. *)
(***************************************************************************)
\* The texts of at most MaxLen characters, blanks and letters.
GatewayTexts == UNION {[1..n -> {Space, "a"}] : n \in 0..MaxLen}
GatewayStyles == {Null, "Polished"}
GatewayLanguages == {"Original", "Chinese"}
GatewayPayloads == {<<>>, <<1>>}

\* The promise of a gateway function that awaits its fetch.
Awaiting == [threw |-> FALSE, message |-> "", value |-> "awaiting the fetch"]

\* A gateway step as lastOp records it: the function, whether it reached its fetch,
\* the invocation, and how the promise stands after the step.
GatewayOp(name, fetches, requests, outcome) ==
    [name |-> name, flag |-> fetches, requests |-> requests, outcome |-> outcome]

\* rewriteText to its fetch
GatewayRewrite(text, style, language, token) ==
    /\ lastOp' = GatewayOp("rewriteText", RewriteFetches(text, token),
                           {Request("rewrite", token, <<>>, text, style, language)},
                           IF RewriteFetches(text, token) THEN Awaiting
                           ELSE rewriteText(text, style, language, token, NetworkFailure))
    /\ IF RewriteFetches(text, token)
       THEN /\ CountInFlight("rewrite") < MaxInFlight
            /\ calls' = Issue(Call("rewrite", IDLE, text, style, language))
       ELSE UNCHANGED calls
    /\ UNCHANGED <<session, settings, capture>>

\* rewriteText from its fetch on
GatewayRewriteFetched(c, resp) ==
    /\ c \in InFlight("rewrite")
    /\ calls' = Settle(c)
    /\ lastOp' = GatewayOp("rewriteText fetched", TRUE, {}, RewriteFetched(resp))
    /\ UNCHANGED <<session, settings, capture>>

\* transcribeAudio to its fetch
GatewayTranscribe(payload, token) ==
    /\ lastOp' = GatewayOp("transcribeAudio", TranscribeFetches(token),
                           {Request("transcribe", token, payload, <<>>, Null, "Original")},
                           IF TranscribeFetches(token) THEN Awaiting
                           ELSE transcribeAudio(token, NetworkFailure))
    /\ IF TranscribeFetches(token)
       THEN /\ CountInFlight("transcribe") < MaxInFlight
            /\ calls' = Issue(TranscribeCall)
       ELSE UNCHANGED calls
    /\ UNCHANGED <<session, settings, capture>>

\* transcribeAudio from its fetch on
GatewayTranscribeFetched(c, resp) ==
    /\ c \in InFlight("transcribe")
    /\ calls' = Settle(c)
    /\ lastOp' = GatewayOp("transcribeAudio fetched", TRUE, {}, TranscribeFetched(resp))
    /\ UNCHANGED <<session, settings, capture>>

CallRewrite ==
    \E text \in GatewayTexts : \E style \in GatewayStyles :
        \E language \in GatewayLanguages : \E token \in ApiKeys :
            GatewayRewrite(text, style, language, token)
RewriteFetch == \E c \in InFlight("rewrite") : \E resp \in RewriteResponses \cup {NetworkFailure} : GatewayRewriteFetched(c, resp)
CallTranscribe == \E payload \in GatewayPayloads : \E token \in ApiKeys : GatewayTranscribe(payload, token)
TranscribeFetch == \E c \in InFlight("transcribe") : \E resp \in TranscribeResponses : GatewayTranscribeFetched(c, resp)

GatewayNext ==
    \/ CallRewrite
    \/ RewriteFetch
    \/ CallTranscribe
    \/ TranscribeFetch

GatewaySpec == Init /\ [][GatewayNext]_vars

(***************************************************************************)
(* Properties                                                              *)
(***************************************************************************)
\* The Session as Discard leaves it, but for elapsedSeconds.
SessionReset ==
    /\ status = IDLE
    /\ transcription = <<>>
    /\ errorMessage = Null
    /\ activeStyle = Null
    /\ activeLanguage = "Original"

\* A call in flight was resolved by the last step.
Resolved == lastOp.name \in {"TranscribeResolve", "RewriteResolve"}

\* C1: a network call issued before a Discard or Save, which resolves after it, changes
\* no Session field: when the resolution is the step that follows the Discard or Save,
\* the Session is after it as the Discard left it (status Idle, transcript empty,
\* errorMessage null, activeStyle null, activeLanguage Original).
C1_StaleResolutionChangesNothing == (Resolved /\ lastOp.flag) => SessionReset

\* C2: in every reachable state at most one network call, transcribe or rewrite, is in
\* flight.
C2_AtMostOneCallInFlight == BagCardinality(calls) <= 1

\* C3: every Stop accepted while status is Recording causes exactly one transcribe call:
\* the accepted Stop queues one stop task, and a stop task invokes transcribeAudio once,
\* with a payload made of the one chunk of its recording.
C3_StopQueuesOneTask ==
    (lastOp.name = "handleStopRecording" /\ lastOp.flag) => stopping >= 1

C3_OneCallOnePayload ==
    /\ C3_StopQueuesOneTask
    /\ lastOp.name = "onstop" =>
          \E q \in lastOp.requests :
              /\ lastOp.requests = {q}
              /\ q.kind = "transcribe"
              /\ Len(q.payload) = 1

\* C4: whenever status becomes Processing, status eventually becomes Completed or Error,
\* given that the queued stop task runs and the transcribe call resolves or rejects.
C4_ProcessingEnds == (status = PROCESSING) ~> (status \in {COMPLETED, ERROR})

\* An accepted Stop has just set status to Processing.
C4_StopAccepted ==
    lastOp.name = "handleStopRecording" /\ lastOp.flag /\ status = PROCESSING

\* C5: Discard leaves the Session with transcript empty, elapsedSeconds 0, activeStyle
\* null, activeLanguage Original, errorMessage null and status Idle, and no ticker
\* running; Save leaves the same.
C5_DiscardResetsAll ==
    lastOp.name \in {"handleDiscard", "handleSaveNote"} =>
        (SessionReset /\ duration = 0 /\ timers = 0)

\* The step is a click on the style that is active, with a transcript.
ReclickActiveStyle(style) ==
    IsTruthy(transcription) /\ activeStyle = style /\ onStyleClick(style)

\* The step invokes rewriteText once, with the transcript, no style and the language
\* that is active, which it leaves active.
DeselectsAndRewrites ==
    /\ activeStyle' = Null
    /\ activeLanguage' = activeLanguage
    /\ lastOp'.requests =
          {Request("rewrite", apiKey, <<>>, transcription, Null, activeLanguage)}

\* C6 as stated: clicking the active style, with a non-empty transcript, sets activeStyle
\* to null and issues exactly one rewrite call with style null and the current language.
C6_ReclickStyleDeselects ==
    [][\A style \in RewriteStyle : ReclickActiveStyle(style) => DeselectsAndRewrites]_vars

\* C6 with the credential: clicking the active style, with a non-empty transcript and a
\* credential configured, sets activeStyle to null and issues exactly one rewrite call
\* with style null and the current language.
C6_ReclickStyleDeselectsWithCredential ==
    [][\A style \in RewriteStyle :
          (apiKey # "" /\ ReclickActiveStyle(style)) => DeselectsAndRewrites]_vars

\* The active style was clicked and a rewrite requested without a style.
C6_Reclicked ==
    /\ lastOp.name = "onStyleClick"
    /\ lastOp.flag
    /\ activeStyle = Null
    /\ \E q \in lastOp.requests : q.style = Null

\* The step is a click on the language that is active.
ReclickActiveLanguage(language) == activeLanguage = language /\ onLanguageClick(language)

\* C7: clicking the active language issues no rewrite call and leaves status, transcript,
\* activeStyle, activeLanguage and errorMessage unchanged; activeLanguage is never null.
C7_ReclickLanguageNoOp ==
    /\ [][\A language \in TargetLanguage :
             ReclickActiveLanguage(language) =>
                 /\ calls' = calls
                 /\ lastOp'.requests = {}
                 /\ UNCHANGED <<status, transcription, activeStyle, activeLanguage,
                                errorMessage>>]_vars
    /\ [](activeLanguage \in TargetLanguage)

\* The active language, one the user switched to, was clicked again.
C7_Reclicked ==
    lastOp.name = "onLanguageClick" /\ lastOp.flag /\ activeLanguage = "Chinese"

\* The step is the continuation of a rewrite call whose fetch met resp.
RewriteResolved(c, resp) == c \in InFlight("rewrite") /\ RewriteResolve(c, resp)

\* C8: when a rewrite call fails, status becomes Completed if it was Completed
\* immediately before the attempt and Error otherwise, errorMessage is the failure
\* message, and transcript has the value it had before the attempt.
C8_FailureKeepsTranscript ==
    [][\A c \in InFlight("rewrite") : \A resp \in RewriteResponses :
          (RewriteFetched(resp).threw /\ RewriteResolved(c, resp)) =>
              /\ status' = IF c.previousStatus = COMPLETED THEN COMPLETED ELSE ERROR
              /\ errorMessage' = RewriteFetched(resp).message
              /\ transcription' = c.text]_vars

\* The step is a toggle that issues a rewrite call.
ToggleIssues(c) ==
    /\ c.kind = "rewrite"
    /\ ClickStyle \/ ClickLanguage
    /\ calls' = Issue(c)

\* C9: a toggle that issues a rewrite call records the attempted selection, and when
\* the call succeeds or fails activeStyle and activeLanguage are that selection.
C9_SelectionIsTheAttempted ==
    [][/\ \A c \in BagToSet(calls') :
             ToggleIssues(c) => (activeStyle' = c.style /\ activeLanguage' = c.language)
       /\ \A c \in InFlight("rewrite") : \A resp \in RewriteResponses :
             RewriteResolved(c, resp) =>
                 (activeStyle' = c.style /\ activeLanguage' = c.language)]_vars

\* C10: a rewrite call that succeeds replaces transcript with the trimmed content of
\* the response and sets status to Completed, whatever its style and language.
C10_SuccessTrimsContent ==
    [][\A c \in InFlight("rewrite") : \A resp \in RewriteResponses :
          (~RewriteFetched(resp).threw /\ RewriteResolved(c, resp)) =>
              /\ transcription' = Trim(resp.content)
              /\ status' = COMPLETED]_vars

\* A rewrite call has just succeeded on a content that had blanks around it.
C10_Rewritten ==
    /\ lastOp.name = "RewriteResolve"
    /\ errorMessage = Null
    /\ status = COMPLETED
    /\ transcription = <<"a">>

\* C11: rewriteText called with a valid credential and a text that is empty once its
\* blanks are trimmed (the empty text and every text of blanks) throws the Error
\* "No text to rewrite." and makes no fetch.
C11_BlankTextRejectedUnfetched ==
    [][\A text \in GatewayTexts : \A style \in GatewayStyles :
          \A language \in GatewayLanguages :
              (Trim(text) = <<>> /\ GatewayRewrite(text, style, language, Token)) =>
                  /\ lastOp'.outcome = Throw("No text to rewrite.")
                  /\ ~lastOp'.flag
                  /\ calls' = calls]_vars

\* rewriteText was called with the credential and a text of blanks, and threw.
C11_BlankTextGiven ==
    /\ lastOp.name = "rewriteText"
    /\ lastOp.requests = {Request("rewrite", Token, <<>>, <<Space, Space>>, Null, "Original")}
    /\ lastOp.outcome.threw

\* The step is the continuation of a transcribe call whose fetch met resp.
TranscribeResolved(c, resp) == c \in InFlight("transcribe") /\ TranscribeResolve(c, resp)

\* C12: when the transcribe call succeeds, status becomes Completed and transcript is
\* the text of the response; when it fails, status becomes Error, errorMessage is the
\* failure's message and transcript is left as it was.
C12_TranscribeResolution ==
    [][\A c \in InFlight("transcribe") : \A resp \in TranscribeResponses :
          TranscribeResolved(c, resp) =>
              IF ~TranscribeFetched(resp).threw
              THEN /\ status' = COMPLETED
                   /\ transcription' = resp.text
              ELSE /\ status' = ERROR
                   /\ errorMessage' = TranscribeFetched(resp).message
                   /\ transcription' = transcription]_vars

\* A transcribe call has just failed while the transcript held a text: Error, with the
\* failure's message and the text kept.
C12_TranscribeFailed ==
    /\ lastOp.name = "TranscribeResolve"
    /\ status = ERROR
    /\ errorMessage = "ASR API Error: 500"
    /\ transcription = <<"a">>

\* The step opens the settings and leaves the Session, the capture and the calls alone.
OnlyOpensSettings ==
    /\ isSettingsOpen' = TRUE
    /\ UNCHANGED <<status, transcription, duration, errorMessage, activeStyle,
                   activeLanguage>>
    /\ acquiring' = acquiring
    /\ calls' = calls
    /\ lastOp'.requests = {}

\* C13 as stated: with an empty credential, Start opens the settings, leaves status,
\* transcript, elapsedSeconds, activeStyle, activeLanguage and errorMessage unchanged and
\* starts no device acquisition; so does every click on a style or a language.
C13_NoCredentialOpensSettings ==
    [][apiKey = "" =>
          /\ ClickStart => OnlyOpensSettings
          /\ ClickStyle => OnlyOpensSettings
          /\ ClickLanguage => OnlyOpensSettings]_vars

\* C13 but for the active language: with an empty credential, Start opens the settings,
\* leaves status, transcript, elapsedSeconds, activeStyle, activeLanguage and
\* errorMessage unchanged and starts no device acquisition; so does every click on a
\* style and on a language that is not the active one.
C13_NoCredentialOpensSettingsButActive ==
    [][apiKey = "" =>
          /\ ClickStart => OnlyOpensSettings
          /\ ClickStyle => OnlyOpensSettings
          /\ \A language \in TargetLanguage :
                (language # activeLanguage /\ PageUncovered /\ ToggleEnabled
                    /\ onLanguageClick(language)) => OnlyOpensSettings]_vars

\* With an empty credential and a transcript, a click on a language that was not the
\* active one has opened the settings.
C13_ToggleWithoutCredential ==
    /\ apiKey = ""
    /\ lastOp.name = "onLanguageClick"
    /\ ~lastOp.flag
    /\ isSettingsOpen
    /\ IsTruthy(transcription)

\* C14: a Start with the credential present, from Idle, Completed or Error, clears
\* transcript, errorMessage and activeStyle and sets activeLanguage to Original, and
\* elapsedSeconds is 0 once its device acquisition has succeeded and once it has failed.
C14_StartClearsAll ==
    [][/\ (apiKey # "" /\ status \in {IDLE, COMPLETED, ERROR} /\ ClickStart) =>
              /\ transcription' = <<>>
              /\ errorMessage' = Null
              /\ activeStyle' = Null
              /\ activeLanguage' = "Original"
       /\ getUserMediaResolved => duration' = 0
       /\ getUserMediaRejected => duration' = 0]_vars

\* C15: when the device acquisition of a Start fails, status becomes Error with the
\* device-access message; that Start sets status to Recording at no step, makes no
\* recorder and starts no ticker.
C15_AcquisitionFailure ==
    [][/\ ClickStart => (status' = status /\ timers' = timers)
       /\ getUserMediaRejected =>
              /\ status' = ERROR
              /\ errorMessage' = "Microphone access denied or not available."
              /\ timers' = timers
              /\ timerIntervalRef' = timerIntervalRef
              /\ recording' = recording
              /\ mediaRecorderRef' = mediaRecorderRef]_vars

\* The only device acquisition there was has just failed: Error, nothing recording, no
\* ticker.
C15_Denied ==
    /\ lastOp.name = "getUserMediaRejected"
    /\ status = ERROR
    /\ Sessions = 0
    /\ timers = 0

\* The Session and the capture are left as they are.
NothingStarted ==
    /\ UNCHANGED <<status, transcription, duration, errorMessage, activeStyle,
                   activeLanguage>>
    /\ UNCHANGED <<acquiring, recording, timers, timerIntervalRef, mediaRecorderRef>>

\* C16: handleStartRecording invoked while status is Recording, Processing or Rewriting,
\* whatever the button allows, changes no Session field, starts no device acquisition
\* and starts no ticker.
C16_StartIgnoredWhileInteracting ==
    [][(status \in {RECORDING, PROCESSING, REWRITING} /\ DirectStart) =>
          NothingStarted]_vars

\* C17: in every reachable state where status is not Recording no elapsed-time ticker is
\* running.
C17_TickerOnlyWhileRecording == status # RECORDING => timers = 0

\* C18: whenever status is Recording, Processing or Rewriting the text box, Start,
\* Discard and Save are disabled and no step edits the text, starts, discards or saves;
\* whenever status is Processing or Rewriting no click on a style or a language issues a
\* call.
C18_ControlsDisabledWhileInteracting ==
    /\ [](status \in {RECORDING, PROCESSING, REWRITING} =>
              ~(TextareaEnabled \/ StartEnabled \/ DiscardEnabled \/ SaveEnabled))
    /\ [][(status \in {RECORDING, PROCESSING, REWRITING}) =>
              ~(TypeText \/ ClickStart \/ ClickDiscard \/ ClickSave)]_vars
    /\ [][(status \in {PROCESSING, REWRITING}) =>
              ~((ClickStyle \/ ClickLanguage) /\ lastOp'.requests # {})]_vars

\* A rewrite is running on a transcript whose toggles are on the page.
C18_RewritingWithTools == status = REWRITING /\ ToolsShown /\ calls # EmptyBag

\* C19: handleStopRecording invoked when status is not Recording changes no Session
\* field, stops and starts no ticker, stops no recorder and issues no transcribe call.
C19_StopOutsideRecordingNoOp ==
    [][(status # RECORDING /\ DirectStop) =>
          /\ UNCHANGED <<status, transcription, duration, errorMessage, activeStyle,
                         activeLanguage>>
          /\ UNCHANGED <<timers, timerIntervalRef, mediaRecorderRef, recording, stopping>>
          /\ calls' = calls
          /\ lastOp'.requests = {}]_vars

\* Stop was invoked outside Recording while a recorder was recording and a ticker
\* running, and was turned down.
C19_StopTurnedDown ==
    /\ lastOp.name = "handleStopRecording"
    /\ ~lastOp.flag
    /\ status # RECORDING
    /\ mediaRecorderRef = "recording"
    /\ timerIntervalRef # Null

\* C20: a click on a style or a language invoked while transcript is empty leaves status,
\* activeStyle, activeLanguage and errorMessage unchanged and issues no rewrite call.
C20_ToggleOnEmptyTranscriptNoOp ==
    [][(transcription = <<>> /\ (DirectStyle \/ DirectLanguage)) =>
          /\ UNCHANGED <<status, activeStyle, activeLanguage, errorMessage>>
          /\ calls' = calls
          /\ lastOp'.requests = {}]_vars

\* A language that is not the active one was clicked on an empty transcript.
C20_ToggledOnEmpty ==
    /\ lastOp.name = "onLanguageClick"
    /\ ~lastOp.flag
    /\ transcription = <<>>
    /\ lastOp.requests = {}

\* The response is no success with a text: an error status, no response at all, a body
\* that is no JSON, or JSON without a text field.
IsTranscriptionFailure(resp) ==
    ~resp.net \/ ~resp.ok \/ ~resp.json \/ resp.text = Undefined

\* C21: a transcribe call whose response is an error status, a network failure, or a
\* success status with a body that is no JSON or has no text field ends with status
\* Error and errorMessage set, and never with status Completed and an undefined
\* transcript.
C21_MalformedResponseIsFailure ==
    [][\A c \in InFlight("transcribe") : \A resp \in TranscribeResponses :
          (IsTranscriptionFailure(resp) /\ TranscribeResolved(c, resp)) =>
              /\ status' = ERROR
              /\ errorMessage' # Null
              /\ transcription' # Undefined]_vars

\* The edges the status may change along.
StatusEdges ==
    ({IDLE, COMPLETED, ERROR} \X {RECORDING})
        \cup ({IDLE, COMPLETED, ERROR} \X {ERROR})
        \cup {<<RECORDING, PROCESSING>>}
        \cup ({PROCESSING} \X {COMPLETED, ERROR})
        \cup ({COMPLETED, ERROR} \X {REWRITING})
        \cup ({REWRITING} \X {COMPLETED, ERROR})
        \cup (AppStatus \X {IDLE})

\* C22: status changes only from Idle, Completed or Error to Recording or to Error, from
\* Recording to Processing, from Processing to Completed or Error, from Completed or
\* Error to Rewriting, from Rewriting to Completed or Error, and from any status to
\* Idle.
C22_StatusChangesAlongEdges ==
    [][(status' # status) => (<<status, status'>> \in StatusEdges)]_vars

\* C23: in every reachable state where status is Recording, activeStyle is null,
\* activeLanguage is Original and transcript is empty.
C23_RecordingHasNothingSelected ==
    status = RECORDING =>
        (activeStyle = Null /\ activeLanguage = "Original" /\ transcription = <<>>)

\* The step is the continuation of a device acquisition that was pending when the
\* Discard or Save of the step before ran.
AcquisitionSettlesAfterReset == JustReset /\ (Granted \/ Denied)

\* C24: a device acquisition that is pending when Discard or Save runs does not take
\* effect afterwards: when it settles as the next step, status stays Idle and no
\* ticker and no recorder is started.
C24_PendingAcquisitionDropped ==
    [][AcquisitionSettlesAfterReset =>
          /\ status' = IDLE
          /\ timers' = timers
          /\ recording' = recording]_vars

\* C25: in every reachable state where status is Error, errorMessage is not null.
C25_ErrorHasMessage == status = ERROR => errorMessage # Null

=============================================================================
